---- MODULE Spec2Model ----
(***************************************************************************)
(* htmlisp: the command-line glue of src/main.rs (main, run, read_write,   *)
(* watch) as a state machine over an output file tree and a console, with  *)
(* the parser and the renderers of the missing module `parser` modelled    *)
(* from the specification's grammar (sections 4.1 to 4.3).                  *)
(*                                                                         *)
(* Text is a sequence of one-character strings.  A file name is the        *)
(* sequence of its dot-separated segments (a.htmlisp is <<"a","htmlisp">>, *)
(* .htmlisp is <<"","htmlisp">>), a path is a sequence of file names, and  *)
(* an absolute path starts with the name Root.                             *)
(***************************************************************************)
EXTENDS Naturals, Sequences, FiniteSets

VARIABLES
    args,      \* the command line (env::args()), fixed for the whole run
    pc,        \* position of the only thread
    mode,      \* "none", "single" or "watch": which branch of run is active
    config,    \* run's Config, built by main from the command line
    cfg,       \* the Config the running read_write was called with
    disk,      \* the text the input file holds now
    watcher,   \* whether watch has created the watcher and set it on the directory
    channel,   \* the events sent by the watcher and not yet received, oldest first
    ev,        \* the event taken from the channel by the last recv()
    rel,       \* written_file_path_relative of the event being compiled
    input,     \* what fs::read_to_string returned
    html,      \* what Parser::parse returned
    fs,        \* the output file tree
    fs0,       \* the output file tree when the running read_write was entered
    fsInit,    \* the output file tree when the process started
    steps,     \* the steps the running read_write has completed, in order
    fault,     \* the step the environment failed, if it failed one
    rwResult,  \* what read_write returned
    printed,   \* console lines since the last recv() (since the start before it)
    exit       \* process exit status, or Running

vars == <<args, pc, mode, config, cfg, disk, watcher, channel, ev, rel, input, html, fs, fs0, fsInit, steps,
          fault,
          rwResult, printed, exit>>

\* Longest source text of the parser's specification ParseSpec.
MaxSrcLen == 4

\* Most events waiting in the channel in the specification QueueSpec.
MaxChannel == 2

-----------------------------------------------------------------------------
(* Sequences *)

Last(s) == s[Len(s)]

Front(s) == SubSeq(s, 1, Len(s) - 1)

IsPrefix(p, s) == Len(p) <= Len(s) /\ SubSeq(s, 1, Len(p)) = p

-----------------------------------------------------------------------------
(* Lexer: spec 4.1 *)

Chars == {"(", ")", "\"", "d", " "}

LexFail == [ok |-> FALSE, toks |-> <<>>]

\* The first index >= i of s holding a character of set, or Len(s) + 1.
RECURSIVE Scan(_, _, _)
Scan(s, i, set) ==
    IF i > Len(s) \/ s[i] \in set THEN i ELSE Scan(s, i + 1, set)

RECURSIVE LexFrom(_, _)
LexFrom(s, i) ==
    IF i > Len(s) THEN [ok |-> TRUE, toks |-> <<>>]
    ELSE IF s[i] = " " THEN LexFrom(s, i + 1)
    ELSE IF s[i] \in {"(", ")"} THEN
        LET r == LexFrom(s, i + 1)
        IN  IF r.ok
            THEN [ok |-> TRUE, toks |-> <<[k |-> s[i], s |-> <<>>]>> \o r.toks]
            ELSE LexFail
    ELSE IF s[i] = "\"" THEN
        LET j == Scan(s, i + 1, {"\""})
        IN  IF j > Len(s) THEN LexFail  \* unterminated quoted literal
            ELSE LET r == LexFrom(s, j + 1)
                 IN  IF r.ok
                     THEN [ok |-> TRUE,
                           toks |-> <<[k |-> "Q", s |-> SubSeq(s, i + 1, j - 1)]>>
                                    \o r.toks]
                     ELSE LexFail
    ELSE \* bare identifier: a maximal run of non-whitespace, non-parenthesis
        LET j == Scan(s, i, {" ", "(", ")"})
            r == LexFrom(s, j)
        IN  IF r.ok
            THEN [ok |-> TRUE,
                  toks |-> <<[k |-> "ID", s |-> SubSeq(s, i, j - 1)]>> \o r.toks]
            ELSE LexFail

Lex(s) == LexFrom(s, 1)

-----------------------------------------------------------------------------
(* Parser: spec 4.2.  A result is [ok, nodes, next]: the nodes parsed and  *)
(* the index of the first token not consumed; ok = FALSE is the failure    *)
(* signal.                                                                 *)

ParseFail == [ok |-> FALSE, nodes |-> <<>>, next |-> 0]

TextNode(t) ==
    [type |-> "Text", text |-> t, tag_name |-> <<>>, attributes |-> <<>>,
     children |-> <<>>]

ElementNode(tag, attrs, kids) ==
    [type |-> "Element", text |-> <<>>, tag_name |-> tag, attributes |-> attrs,
     children |-> kids]

\* The body of a form after its tag name, from token i: attributes and
\* children up to the matching close-paren.
RECURSIVE ParseBody(_, _, _, _, _)
ParseBody(toks, i, tag, attrs, kids) ==
    IF i > Len(toks) THEN ParseFail  \* end of input before the close-paren
    ELSE IF toks[i].k = ")" THEN
        [ok |-> TRUE, nodes |-> <<ElementNode(tag, attrs, kids)>>, next |-> i + 1]
    ELSE IF toks[i].k = "ID" /\ i < Len(toks) /\ toks[i + 1].k = "Q" THEN
        ParseBody(toks, i + 2, tag,
                  Append(attrs, <<toks[i].s, toks[i + 1].s>>), kids)
    ELSE IF toks[i].k \in {"ID", "Q"} THEN
        ParseBody(toks, i + 1, tag, attrs, Append(kids, TextNode(toks[i].s)))
    ELSE \* a nested form
        IF i < Len(toks) /\ toks[i + 1].k = "ID"
        THEN LET r == ParseBody(toks, i + 2, toks[i + 1].s, <<>>, <<>>)
             IN  IF r.ok
                 THEN ParseBody(toks, r.next, tag, attrs, kids \o r.nodes)
                 ELSE ParseFail
        ELSE ParseFail  \* the first token of a form must be a bare identifier

\* Zero or more top-level expressions from token i.
RECURSIVE ParseTop(_, _, _)
ParseTop(toks, i, acc) ==
    IF i > Len(toks) THEN [ok |-> TRUE, nodes |-> acc, next |-> i]
    ELSE IF toks[i].k = "Q" THEN
        ParseTop(toks, i + 1, Append(acc, TextNode(toks[i].s)))
    ELSE IF toks[i].k = "(" /\ i < Len(toks) /\ toks[i + 1].k = "ID" THEN
        LET r == ParseBody(toks, i + 2, toks[i + 1].s, <<>>, <<>>)
        IN  IF r.ok THEN ParseTop(toks, r.next, acc \o r.nodes) ELSE ParseFail
    ELSE ParseFail  \* an unmatched close-paren, or a bare identifier

None == [some |-> FALSE, nodes |-> <<>>]

Some(nodes) == [some |-> TRUE, nodes |-> nodes]

\* Parser::new(&input).parse(): Option<Html>
parse(s) ==
    LET l == Lex(s)
    IN  IF ~l.ok THEN None
        ELSE LET r == ParseTop(l.toks, 1, <<>>)
             IN  IF r.ok THEN Some(r.nodes) ELSE None

-----------------------------------------------------------------------------
(* Renderers: spec 4.3.  The rendered text is a sequence of pieces.        *)

EscapeChar(c, inAttribute) ==
    IF c = "&" THEN "&amp;"
    ELSE IF c = "<" THEN "&lt;"
    ELSE IF c = ">" THEN "&gt;"
    ELSE IF inAttribute /\ c = "\"" THEN "&quot;"
    ELSE c

Escape(t, inAttribute) == [i \in 1..Len(t) |-> EscapeChar(t[i], inAttribute)]

RECURSIVE RenderAttributes(_)
RenderAttributes(attrs) ==
    IF attrs = <<>> THEN <<>>
    ELSE <<" ">> \o Head(attrs)[1] \o <<"=\"">> \o Escape(Head(attrs)[2], TRUE)
         \o <<"\"">> \o RenderAttributes(Tail(attrs))

OpenTag(n) == <<"<">> \o n.tag_name \o RenderAttributes(n.attributes) \o <<">">>

CloseTag(n) == <<"</">> \o n.tag_name \o <<">">>

\* impl Display for Html: the compact render
RECURSIVE render_compact(_)
render_compact(nodes) ==
    IF nodes = <<>> THEN <<>>
    ELSE LET n == Head(nodes)
         IN  (IF n.type = "Text" THEN Escape(n.text, FALSE)
              ELSE OpenTag(n) \o render_compact(n.children) \o CloseTag(n))
             \o render_compact(Tail(nodes))

Indent(depth) == [i \in 1..depth |-> "  "]

\* Html::pretty_print(depth): the pretty render
RECURSIVE pretty_print(_, _)
pretty_print(nodes, depth) ==
    IF nodes = <<>> THEN <<>>
    ELSE LET n == Head(nodes)
         IN  (IF n.type = "Text"
              THEN Indent(depth) \o Escape(n.text, FALSE) \o <<"\n">>
              ELSE Indent(depth) \o OpenTag(n) \o <<"\n">>
                   \o pretty_print(n.children, depth + 1)
                   \o Indent(depth) \o CloseTag(n) \o <<"\n">>)
             \o pretty_print(Tail(nodes), depth)

-----------------------------------------------------------------------------
(* Paths: std::path *)

Root == <<"/">>

Name(stem, ext) == <<stem, ext>>

\* Path::extension of a file name: nothing when the name has no dot, or
\* begins with its only dot.
NoExt == [some |-> FALSE, ext |-> ""]

NameExtension(name) ==
    IF Len(name) < 2 \/ (Len(name) = 2 /\ name[1] = "") THEN NoExt
    ELSE [some |-> TRUE, ext |-> Last(name)]

extension(path) ==
    IF path = <<>> \/ Last(path) = Root THEN NoExt ELSE NameExtension(Last(path))

\* PathBuf::set_extension: the file name's extension, if any, replaced.
set_extension(path, ext) ==
    IF path = <<>> \/ Last(path) = Root THEN path
    ELSE LET name == Last(path)
             stem == IF NameExtension(name).some THEN Front(name) ELSE name
         IN  Append(Front(path), Append(stem, ext))

\* PathBuf::pop
pop(path) == IF path = <<>> \/ path = <<Root>> THEN path ELSE Front(path)

\* PathBuf::push: an absolute argument replaces the path.
push(path, p) == IF p # <<>> /\ Head(p) = Root THEN p ELSE path \o p

\* Path::strip_prefix
strip_prefix(path, base) ==
    IF IsPrefix(base, path)
    THEN [ok |-> TRUE, path |-> SubSeq(path, Len(base) + 1, Len(path))]
    ELSE [ok |-> FALSE, path |-> <<>>]

-----------------------------------------------------------------------------
(* The world outside the process: working directory, watched tree, links  *)

Plain(s) == <<s>>

Cwd == <<Root, Plain("cwd")>>

WatchArg == <<Plain("w")>>       \* -w w: a directory below the working directory

NotDirArg == <<Plain("nodir")>>  \* -w nodir: not a directory

\* Symbolic links to directories: one inside the watched tree to a directory
\* of the watched tree, one inside it to a directory outside.
Links ==
    { [from |-> Cwd \o WatchArg \o <<Plain("l")>>,
       to   |-> Cwd \o WatchArg \o <<Plain("d")>>],
      [from |-> Cwd \o WatchArg \o <<Plain("x")>>,
       to   |-> <<Root, Plain("elsewhere")>>] }

\* Path::is_dir
is_dir(path) == path = WatchArg

\* Path::canonicalize: the absolute path with its links resolved; fails when
\* the path does not exist (exists is what the file system answers).
canonicalize(path, exists) ==
    LET abs == IF path # <<>> /\ Head(path) = Root THEN path ELSE Cwd \o path
        hit == {l \in Links : IsPrefix(l.from, abs)}
    IN  IF ~exists THEN [ok |-> FALSE, path |-> <<>>]
        ELSE IF hit = {} THEN [ok |-> TRUE, path |-> abs]
        ELSE LET l == CHOOSE l \in hit : TRUE
             IN  [ok |-> TRUE,
                  path |-> l.to \o SubSeq(abs, Len(l.from) + 1, Len(abs))]

\* Path::to_str: nothing for a path that is not valid UTF-8.
to_str(path) ==
    IF \E i \in 1..Len(path) : \E j \in 1..Len(path[i]) : path[i][j] = "\\xFF"
    THEN [some |-> FALSE, str |-> <<>>]
    ELSE [some |-> TRUE, str |-> path]

\* The paths the watcher reports: absolute, below the watched directory.
Watched(relative) == Cwd \o WatchArg \o relative

EventPaths ==
    { Watched(<<Name("a", "htmlisp")>>),
      Watched(<<Plain("d"), Name("a", "htmlisp")>>),
      Watched(<<Plain("l"), Name("a", "htmlisp")>>),
      Watched(<<Plain("x"), Name("a", "htmlisp")>>),
      Watched(<<Name("a", "html"), Name("b", "htmlisp")>>),
      Watched(<<Name("\\xFF", "htmlisp")>>),
      Watched(<<Name("a", "txt")>>),
      Watched(<<Name("", "htmlisp")>>),
      Watched(<<Plain("htmlisp")>>) }

Event(kind, path) == [kind |-> kind, path |-> path]

\* DebouncedEvent values a recv() can return.
Events ==
    {Event("Write", p) : p \in EventPaths}
    \cup {Event(k, Watched(<<Name("a", "htmlisp")>>)) : k \in {"Create", "Remove"}}
    \cup {Event("Rescan", <<>>)}

NoEvent == Event("", <<>>)

\* Source texts a watched or given input file can hold.
SrcUnterminated == <<"(", "d", "i", "v">>  \* (div

SrcUnmatched == <<")">>                   \* )

SrcElement == <<"(", "d", ")">>

SrcText == <<"\"", "d", "\"">>

Sources == {SrcUnterminated, SrcUnmatched, SrcElement, SrcText}

\* All source texts of at most n characters.
AllSources(n) == UNION {[1..k -> Chars] : k \in 0..n}

-----------------------------------------------------------------------------
(* The output file tree: a set of entries [path, kind, text]               *)

Entry(path, kind, text) == [path |-> path, kind |-> kind, text |-> text]

Absent(path) == Entry(path, "absent", <<>>)

NodeAt(tree, path) ==
    IF \E e \in tree : e.path = path
    THEN CHOOSE e \in tree : e.path = path
    ELSE Absent(path)

Put(tree, e) == {o \in tree : o.path # e.path} \cup {e}

IoOk(tree) == [ok |-> TRUE, io |-> "", tree |-> tree]

IoErr(io, tree) == [ok |-> FALSE, io |-> io, tree |-> tree]

\* fs::create_dir_all: every missing directory of the path, outermost first.
\* The empty path is Ok; a file where a directory is needed is an error.
RECURSIVE CreateDirsFrom(_, _, _)
CreateDirsFrom(tree, dir, n) ==
    IF n > Len(dir) THEN IoOk(tree)
    ELSE LET p == SubSeq(dir, 1, n)
             k == NodeAt(tree, p).kind
         IN  IF k = "file" THEN IoErr("NotADirectory", tree)
             ELSE CreateDirsFrom(Put(tree, Entry(p, "dir", <<>>)), dir, n + 1)

create_dir_all(tree, dir) == CreateDirsFrom(tree, dir, 1)

\* File::create as OpenOptions::create_new: an existing file is an error.
FileCreateNew(tree, path) ==
    IF pop(path) # <<>> /\ NodeAt(tree, pop(path)).kind # "dir"
    THEN IoErr("NotFound", tree)
    ELSE IF NodeAt(tree, path).kind # "absent" THEN IoErr("AlreadyExists", tree)
    ELSE IoOk(Put(tree, Entry(path, "file", <<>>)))

\* File::create without truncation: an existing file keeps its text.
FileCreateAppend(tree, path) ==
    IF pop(path) # <<>> /\ NodeAt(tree, pop(path)).kind # "dir"
    THEN IoErr("NotFound", tree)
    ELSE IF NodeAt(tree, path).kind = "dir" THEN IoErr("IsADirectory", tree)
    ELSE IoOk(Put(tree, Entry(path, "file", NodeAt(tree, path).text)))

\* File::create: creates the file, or truncates an existing one.
FileCreate(tree, path) ==
    IF pop(path) # <<>> /\ NodeAt(tree, pop(path)).kind # "dir"
    THEN IoErr("NotFound", tree)
    ELSE IF NodeAt(tree, path).kind = "dir" THEN IoErr("IsADirectory", tree)
    ELSE IoOk(Put(tree, Entry(path, "file", <<>>)))

\* write!(&mut output, ..): the text goes after what the file holds.
WriteAll(tree, path, text) ==
    Put(tree, Entry(path, "file", NodeAt(tree, path).text \o text))

OutputRoot == <<Plain("output")>>  \* PathBuf::from("output/")

OldText == <<"old">>

EmptyTree == {}

\* A tree left by earlier runs: output/a.html and o.html exist.
OldTree ==
    { Entry(OutputRoot, "dir", <<>>),
      Entry(OutputRoot \o <<Name("a", "html")>>, "file", OldText),
      Entry(<<Name("o", "html")>>, "file", OldText) }

-----------------------------------------------------------------------------
(* Command line and Config                                                 *)

Args(valid, help, watch, prettify) ==
    [valid |-> valid, help |-> help, watch |-> watch, prettify |-> prettify,
     input |-> <<Name("in", "htmlisp")>>, output |-> <<Name("o", "html")>>]

ArgsSet ==
    {Args(FALSE, FALSE, <<>>, FALSE), Args(TRUE, TRUE, WatchArg, FALSE),
     Args(TRUE, FALSE, NotDirArg, FALSE)}
    \cup {Args(TRUE, FALSE, w, p) : w \in {<<>>, WatchArg}, p \in BOOLEAN}

NoConfig ==
    [help |-> FALSE, watch |-> <<>>, input_file |-> <<>>, output_file |-> <<>>,
     prettify |-> FALSE]

\* Config::new(&mut env::args())
ConfigNew(a) ==
    IF a.valid
    THEN [ok |-> TRUE, err |-> "",
          config |-> [help |-> a.help, watch |-> a.watch, input_file |-> a.input,
                      output_file |-> a.output, prettify |-> a.prettify]]
    ELSE [ok |-> FALSE, err |-> "Invalid arguments", config |-> NoConfig]

-----------------------------------------------------------------------------
(* ProgramError and the console                                            *)

Ok == [ok |-> TRUE, kind |-> "", io |-> "", path |-> <<>>]

Err(kind, io) == [ok |-> FALSE, kind |-> kind, io |-> io, path |-> <<>>]

WatchDirIncorrect(path) ==
    [ok |-> FALSE, kind |-> "WatchDirIncorrect", io |-> "", path |-> path]

NoResult == [ok |-> FALSE, kind |-> "none", io |-> "", path |-> <<>>]

RwErrorKinds == {"ReadInput", "ParseInput", "CreateOutputFile", "WriteOutput"}

Message(text, io, path) == [text |-> text, io |-> io, path |-> path]

\* impl fmt::Display for ProgramError
Display(e) ==
    CASE e.kind = "ReadInput" -> Message("Failed to read input file\n({})", e.io, <<>>)
      [] e.kind = "ParseInput" -> Message("Failed to parse input file", "", <<>>)
      [] e.kind = "CreateOutputFile" ->
            Message("Failed to create output file\n({})", e.io, <<>>)
      [] e.kind = "WriteOutput" ->
            Message("Failed to write to output file:\n({})", e.io, <<>>)
      [] e.kind = "WatchDirIncorrect" -> Message("'{}' is not a directory", "", e.path)

Line(stream, tag, msg, from, to) ==
    [stream |-> stream, tag |-> tag, msg |-> msg, from |-> from, to |-> to]

SuccessLine(from, to) == Line("stdout", "Success", Message("", "", <<>>), from, to)

ErrorLine(msg) == Line("stderr", "Error", msg, <<>>, <<>>)

FileErrorLine(msg, file) == Line("stderr", "Error", msg, file, <<>>)

InfoLine(text, path) == Line("stdout", "Info", Message(text, "", path), <<>>, <<>>)

HelpLine == Line("stdout", "Help", Message("HTMLisp", "", <<>>), <<>>, <<>>)

PanicLine(text) == Line("stderr", "Panic", Message(text, "", <<>>), <<>>, <<>>)

Running == <<>>

Exited(status) == <<status>>

-----------------------------------------------------------------------------
(* State                                                                   *)

InitWith(commandLines, texts) ==
    /\ args \in commandLines
    /\ fsInit \in {EmptyTree, OldTree}
    /\ fs = fsInit
    /\ fs0 = fsInit
    /\ pc = "main"
    /\ mode = "none"
    /\ config = NoConfig
    /\ cfg = NoConfig
    /\ disk \in texts
    /\ watcher = FALSE
    /\ channel = <<>>
    /\ ev = NoEvent
    /\ rel = <<>>
    /\ input = <<>>
    /\ html = None
    /\ steps = <<>>
    /\ fault = ""
    /\ rwResult = NoResult
    /\ printed = <<>>
    /\ exit = Running

Init == InitWith(ArgsSet, Sources)

\* process::exit(status) after a last line, or main returning after it
Exit(status, line) ==
    /\ pc' = "exited"
    /\ exit' = Exited(status)
    /\ printed' = Append(printed, line)

\* The locals of read_write and of one turn of the watch loop, out of scope
LocalsButFault == <<cfg, rel, input, html, steps, rwResult>>

Locals == <<LocalsButFault, fault>>

DropLocals ==
    /\ cfg' = NoConfig
    /\ rel' = <<>>
    /\ input' = <<>>
    /\ html' = None
    /\ steps' = <<>>
    /\ fault' = ""
    /\ rwResult' = NoResult

\* Entering read_write(&config)
EnterReadWrite ==
    /\ pc' = "rw_read"
    /\ fs0' = fs
    /\ input' = <<>>
    /\ html' = None
    /\ steps' = <<>>
    /\ fault' = ""
    /\ rwResult' = NoResult

\* read_write returning
Return(result) ==
    /\ pc' = "rw_ret"
    /\ rwResult' = result

-----------------------------------------------------------------------------
(* main and run                                                            *)

\* main up to run's choice of a mode
\* MainRun with the watch directory looked at before the help flag
MainRunWatchBeforeHelp ==
    /\ pc = "main"
    /\ LET c == ConfigNew(args)
       IN  IF ~c.ok THEN
               /\ Exit(1, ErrorLine(Message(c.err, "", <<>>)))
               /\ UNCHANGED <<mode, config, fs0, Locals>>
           ELSE IF c.config.watch # <<>> THEN
               /\ pc' = "watch"
               /\ mode' = "watch"
               /\ config' = c.config
               /\ UNCHANGED <<fs0, Locals, printed, exit>>
           ELSE IF c.config.help THEN
               /\ Exit(0, HelpLine)
               /\ config' = c.config
               /\ UNCHANGED <<mode, fs0, Locals>>
           ELSE
               /\ mode' = "single"
               /\ config' = c.config
               /\ cfg' = c.config
               /\ rel' = <<>>
               /\ EnterReadWrite
               /\ UNCHANGED <<printed, exit>>
    /\ UNCHANGED <<args, watcher, channel, disk, ev, fs, fsInit>>

MainRun ==
    /\ pc = "main"
    /\ LET c == ConfigNew(args)
       IN  IF ~c.ok THEN
               /\ Exit(1, ErrorLine(Message(c.err, "", <<>>)))
               /\ UNCHANGED <<mode, config, fs0, Locals>>
           ELSE IF c.config.help THEN
               /\ Exit(0, HelpLine)
               /\ config' = c.config
               /\ UNCHANGED <<mode, fs0, Locals>>
           ELSE IF c.config.watch # <<>> THEN
               /\ pc' = "watch"
               /\ mode' = "watch"
               /\ config' = c.config
               /\ UNCHANGED <<fs0, Locals, printed, exit>>
           ELSE
               /\ mode' = "single"
               /\ config' = c.config
               /\ cfg' = c.config
               /\ rel' = <<>>
               /\ EnterReadWrite
               /\ UNCHANGED <<printed, exit>>
    /\ UNCHANGED <<args, watcher, channel, disk, ev, fs, fsInit>>

\* RunReturn with read_write's result ignored
RunReturnIgnoresResult ==
    /\ pc = "rw_ret"
    /\ mode = "single"
    /\ Exit(0, SuccessLine(config.input_file, config.output_file))
    /\ UNCHANGED <<args, watcher, channel, mode, config, cfg, disk, ev, rel, input, html, fs, fs0,
                   fsInit, steps, fault, rwResult>>

\* run and main after read_write(&config)? in single-shot mode
RunReturn ==
    /\ pc = "rw_ret"
    /\ mode = "single"
    /\ IF rwResult.ok
       THEN Exit(0, SuccessLine(config.input_file, config.output_file))
       ELSE Exit(1, ErrorLine(Display(rwResult)))
    /\ UNCHANGED <<args, watcher, channel, mode, config, cfg, disk, ev, rel, input, html, fs, fs0,
                   fsInit, steps, fault, rwResult>>

-----------------------------------------------------------------------------
(* read_write                                                              *)

\* StepError with a failed write reported as CreateOutputFile
StepErrorMerged(step, io) ==
    CASE step = "read" -> Err("ReadInput", io)
      [] step = "parse" -> Err("ParseInput", "")
      [] OTHER -> Err("CreateOutputFile", io)

\* The ProgramError each step's failure is mapped to (map_err, ok_or)
StepError(step, io) ==
    CASE step = "read" -> Err("ReadInput", io)
      [] step = "parse" -> Err("ParseInput", "")
      [] step = "create_dir_all" -> Err("CreateOutputFile", io)
      [] step = "create" -> Err("CreateOutputFile", io)
      [] step = "write" -> Err("WriteOutput", io)

ReadOk(text) == [ok |-> TRUE, io |-> "", text |-> text]

ReadErr(io) == [ok |-> FALSE, io |-> io, text |-> <<>>]

\* fs::read_to_string(&config.input_file): the file's text, or an error when
\* the file is missing or unreadable
ReadResults == {ReadOk(disk), ReadErr("NotFound")}

\* RwRead with File::create moved before the parse
RwReadCreatesOutput ==
    /\ pc = "rw_read"
    /\ \E r \in ReadResults :
          IF r.ok
          THEN /\ input' = r.text
               /\ steps' = Append(steps, "read")
               /\ pc' = "rw_parse"
               /\ fs' = FileCreate(fs, cfg.output_file).tree
               /\ UNCHANGED <<fault, rwResult>>
          ELSE /\ fault' = "read"
               /\ Return(StepError("read", r.io))
               /\ UNCHANGED <<input, steps, fs>>
    /\ UNCHANGED <<args, watcher, channel, mode, config, cfg, disk, ev, rel, html, fs0, fsInit,
                   printed, exit>>

RwRead ==
    /\ pc = "rw_read"
    /\ \E r \in ReadResults :
          IF r.ok
          THEN /\ input' = r.text
               /\ steps' = Append(steps, "read")
               /\ pc' = "rw_parse"
               /\ UNCHANGED <<fault, rwResult>>
          ELSE /\ fault' = "read"
               /\ Return(StepError("read", r.io))
               /\ UNCHANGED <<input, steps>>
    /\ UNCHANGED <<args, watcher, channel, mode, config, cfg, disk, ev, rel, html, fs, fs0, fsInit,
                   printed, exit>>

\* RwParse with the failure signal taken for an empty document
RwParseLenient ==
    /\ pc = "rw_parse"
    /\ html' = Some(parse(input).nodes)
    /\ steps' = Append(steps, "parse")
    /\ pc' = "rw_create_dir_all"
    /\ UNCHANGED <<args, watcher, channel, mode, config, cfg, disk, ev, rel, input, fs, fs0, fsInit,
                   fault, rwResult, printed, exit>>

RwParse ==
    /\ pc = "rw_parse"
    /\ html' = parse(input)
    /\ IF html'.some
       THEN /\ steps' = Append(steps, "parse")
            /\ pc' = "rw_create_dir_all"
            /\ UNCHANGED rwResult
       ELSE /\ Return(StepError("parse", ""))
            /\ UNCHANGED steps
    /\ UNCHANGED <<args, watcher, channel, mode, config, cfg, disk, ev, rel, input, fs, fs0, fsInit,
                   fault, printed, exit>>

\* One output step: `io` is what the file system answers when the
\* environment lets the call through, `denied` what it answers otherwise.
OutputStep(step, next, io, denied) ==
    /\ pc = "rw_" \o step
    /\ \E r \in {io, denied} :
          /\ fs' = r.tree
          /\ IF r.ok
             THEN /\ steps' = Append(steps, step)
                  /\ IF next = "ret" THEN Return(Ok)
                     ELSE pc' = "rw_" \o next /\ UNCHANGED rwResult
                  /\ UNCHANGED fault
             ELSE /\ fault' = IF r = io THEN fault ELSE step
                  /\ Return(StepError(step, r.io))
                  /\ UNCHANGED steps
    /\ UNCHANGED <<args, watcher, channel, mode, config, cfg, disk, ev, rel, input, html, fs0,
                   fsInit, printed, exit>>

RwCreateDirAll ==
    OutputStep("create_dir_all", "create",
               create_dir_all(fs, pop(cfg.output_file)),
               IoErr("PermissionDenied", fs))

RwCreate ==
    OutputStep("create", "write", FileCreate(fs, cfg.output_file),
               IoErr("PermissionDenied", fs))

\* Rendered with the prettify flag ignored
RenderedIgnoresPrettify(h, prettify) == render_compact(h.nodes)

\* The text read_write writes
Rendered(h, prettify) ==
    IF prettify THEN pretty_print(h.nodes, 0) ELSE render_compact(h.nodes)

\* A write the environment fails is taken to have written nothing.
RwWrite ==
    OutputStep("write", "ret",
               IoOk(WriteAll(fs, cfg.output_file, Rendered(html, cfg.prettify))),
               IoErr("StorageFull", fs))

-----------------------------------------------------------------------------
(* watch                                                                   *)

\* WatchStart with the watcher created before the directory check
WatchStartWatcherFirst ==
    /\ pc = "watch"
    /\ \E watcherOk \in BOOLEAN :
          /\ watcher' = watcherOk
          /\ IF ~watcherOk
             THEN Exit(101, PanicLine("called Result::unwrap() on an Err value"))
             ELSE IF ~is_dir(config.watch)
             THEN Exit(1, ErrorLine(Display(WatchDirIncorrect(config.watch))))
             ELSE /\ pc' = "recv"
                  /\ printed' = Append(printed,
                        InfoLine("Watching for write events in {}...", config.watch))
                  /\ UNCHANGED exit
    /\ UNCHANGED <<args, channel, mode, config, disk, ev, fs, fs0, fsInit, Locals>>

\* watch up to its loop: the directory check, the watcher, the Info line
WatchStart ==
    /\ pc = "watch"
    /\ IF ~is_dir(config.watch)
       THEN /\ Exit(1, ErrorLine(Display(WatchDirIncorrect(config.watch))))
            /\ UNCHANGED watcher
       ELSE \E watcherOk \in BOOLEAN :
               /\ watcher' = watcherOk
               /\ IF watcherOk
                  THEN /\ pc' = "recv"
                       /\ printed' = Append(printed,
                             InfoLine("Watching for write events in {}...", config.watch))
                       /\ UNCHANGED exit
                  ELSE Exit(101, PanicLine("called Result::unwrap() on an Err value"))
    /\ UNCHANGED <<args, channel, mode, config, disk, ev, fs, fs0, fsInit, Locals>>

\* Compiles without the check of the extension
CompilesAnyWrite(e) == e.kind = "Write"

\* The events the loop compiles: Write events on a path with the extension
\* htmlisp
Compiles(e) ==
    e.kind = "Write" /\ extension(e.path) = [some |-> TRUE, ext |-> "htmlisp"]

\* RecvFailed leaving the loop: watch returns Ok(()) and main reports success
RecvFailedBreaks ==
    /\ Exit(0, SuccessLine(config.input_file, config.output_file))
    /\ UNCHANGED <<ev, disk>>

\* The Err arm of the match on recv()'s result
RecvFailed ==
    /\ Exit(1, ErrorLine(Message("Watch error: {:?}", "RecvError", <<>>)))
    /\ UNCHANGED <<ev, disk>>

\* The Ok arms of the match on recv()'s result, for the event e; a written
\* file holds any text
Taken(e) ==
    /\ ev' = e
    /\ printed' = <<>>
    /\ IF Compiles(e)
       THEN pc' = "event" /\ disk' \in Sources
       ELSE pc' = "recv" /\ UNCHANGED disk
    /\ UNCHANGED exit

\* receive.recv() and the match on its result, with the channel left out:
\* the next event is any event
Recv ==
    /\ pc = "recv"
    /\ \/ RecvFailed
       \/ \E e \in Events : Taken(e)
    /\ UNCHANGED <<args, watcher, channel, mode, config, fs, fs0, fsInit, Locals>>

\* The events the watcher sends in QueueSpec
QueueEvents ==
    { Event("Write", Watched(<<Name("a", "htmlisp")>>)),
      Event("Write", Watched(<<Plain("d"), Name("a", "htmlisp")>>)),
      Event("Write", Watched(<<Name("a", "txt")>>)) }

\* The watcher's thread sends an event while the main thread is anywhere in
\* watch after the watcher was created
Notify ==
    /\ watcher
    /\ pc # "exited"
    /\ Len(channel) < MaxChannel
    /\ \E e \in QueueEvents : channel' = Append(channel, e)
    /\ UNCHANGED <<args, pc, watcher, mode, config, cfg, disk, ev, rel, input, html, fs,
                   fs0, fsInit, steps, fault, rwResult, printed, exit>>

\* RecvQueued taking the newest event
RecvQueuedNewestFirst ==
    /\ pc = "recv"
    /\ channel # <<>>
    /\ Taken(Last(channel))
    /\ channel' = Front(channel)
    /\ UNCHANGED <<args, watcher, mode, config, fs, fs0, fsInit, Locals>>

\* receive.recv() on the channel and the match on its result: the oldest
\* event waiting; recv() blocks on an empty channel and fails on an empty
\* channel whose sender is gone
RecvQueued ==
    /\ pc = "recv"
    /\ IF channel # <<>>
       THEN Taken(Head(channel)) /\ channel' = Tail(channel)
       ELSE RecvFailed /\ UNCHANGED channel
    /\ UNCHANGED <<args, watcher, mode, config, fs, fs0, fsInit, Locals>>

\* written_file_path_relative: the canonical written path below the
\* canonical watched directory
RelativePath(watchAbsolute, writtenAbsolute) ==
    strip_prefix(writtenAbsolute, watchAbsolute)

\* OutputPath from the file name alone
OutputPathFlat(relative) ==
    set_extension(push(OutputRoot, <<Last(relative)>>), "html")

\* output_path
OutputPath(relative) == set_extension(push(OutputRoot, relative), "html")

\* The Config of one compile: a new one with the two file names set
EventConfig(a, inputFile, outputFile) ==
    [ConfigNew(a).config EXCEPT !.input_file = inputFile,
                                !.output_file = outputFile]

\* The loop's body for a compiled event, up to the call of read_write
Compile ==
    /\ pc = "event"
    /\ \E watchExists, writtenExists \in BOOLEAN :
          LET w == canonicalize(config.watch, watchExists)
              f == canonicalize(ev.path, writtenExists)
              r == RelativePath(w.path, f.path)
              out == OutputPath(r.path)
          IN  IF ~w.ok \/ ~f.ok THEN
                  \* the ? operator: watch returns, main reports and exits
                  /\ Exit(1, ErrorLine(Display(Err("ReadInput", "NotFound"))))
                  /\ fault' = IF ~w.ok THEN "canonicalize_watch"
                              ELSE "canonicalize_written"
                  /\ UNCHANGED <<fs0, LocalsButFault>>
              ELSE IF ~r.ok THEN
                  /\ Exit(101, PanicLine("Couldn't determine output path"))
                  /\ fault' = "strip_prefix"
                  /\ UNCHANGED <<fs0, LocalsButFault>>
              ELSE IF ~ConfigNew(args).ok THEN
                  /\ Exit(1, ErrorLine(Message(ConfigNew(args).err, "", <<>>)))
                  /\ fault' = "config"
                  /\ UNCHANGED <<fs0, LocalsButFault>>
              ELSE IF ~to_str(ev.path).some \/ ~to_str(out).some THEN
                  /\ Exit(101, PanicLine("called Option::unwrap() on a None value"))
                  /\ fault' = "to_str"
                  /\ UNCHANGED <<fs0, LocalsButFault>>
              ELSE
                  /\ cfg' = EventConfig(args, to_str(ev.path).str, to_str(out).str)
                  /\ rel' = r.path
                  /\ printed' = Append(printed,
                                       InfoLine("Compiling due to write event...", <<>>))
                  /\ EnterReadWrite
                  /\ UNCHANGED exit
    /\ UNCHANGED <<args, watcher, channel, mode, config, disk, ev, fs, fsInit>>

\* Report with the error propagated (read_write(&config)?)
ReportPropagates ==
    /\ pc = "rw_ret"
    /\ mode = "watch"
    /\ IF rwResult.ok
       THEN /\ printed' = Append(printed, SuccessLine(rel, cfg.output_file))
            /\ pc' = "recv"
            /\ DropLocals
            /\ UNCHANGED exit
       ELSE /\ Exit(1, ErrorLine(Display(rwResult)))
            /\ UNCHANGED Locals
    /\ UNCHANGED <<args, watcher, channel, mode, config, disk, ev, fs, fs0, fsInit>>

\* The match on read_write's result: a line for the file, then the next turn
Report ==
    /\ pc = "rw_ret"
    /\ mode = "watch"
    /\ printed' = Append(printed,
          IF rwResult.ok THEN SuccessLine(rel, cfg.output_file)
          ELSE FileErrorLine(Display(rwResult), rel))
    /\ pc' = "recv"
    /\ DropLocals
    /\ UNCHANGED <<args, watcher, channel, mode, config, disk, ev, fs, fs0, fsInit, exit>>

-----------------------------------------------------------------------------

Next ==
    \/ MainRun
    \/ RunReturn
    \/ RwRead
    \/ RwParse
    \/ RwCreateDirAll
    \/ RwCreate
    \/ RwWrite
    \/ WatchStart
    \/ Recv
    \/ Compile
    \/ Report

Spec == Init /\ [][Next]_vars

\* A single-shot run on every source text of at most MaxSrcLen characters,
\* and on the named ones
InitParse ==
    InitWith({a \in ArgsSet : a.valid /\ ~a.help /\ a.watch = <<>>},
             AllSources(MaxSrcLen) \cup Sources)

NextParse ==
    \/ MainRun
    \/ RunReturn
    \/ RwRead
    \/ RwParse
    \/ RwCreateDirAll
    \/ RwCreate
    \/ RwWrite

ParseSpec == InitParse /\ [][NextParse]_vars

\* A watch run with the watcher's thread and the channel
InitQueue ==
    InitWith({a \in ArgsSet : a.valid /\ ~a.help /\ a.watch = WatchArg
                                /\ ~a.prettify},
             {SrcElement})

NextQueue ==
    \/ MainRun
    \/ WatchStart
    \/ Notify
    \/ RecvQueued
    \/ Compile
    \/ RwRead
    \/ RwParse
    \/ RwCreateDirAll
    \/ RwCreate
    \/ RwWrite
    \/ Report

QueueSpec == InitQueue /\ [][NextQueue]_vars

-----------------------------------------------------------------------------
(* Properties                                                              *)

ParseInput == Err("ParseInput", "")

AllSteps == <<"read", "parse", "create_dir_all", "create", "write">>

\* read_write has returned and its locals are still in scope
Returned == pc = "rw_ret" \/ (pc = "exited" /\ mode = "single")

\* The running (or returned) read_write got its input and found it
\* malformed
ParseFailed == steps # <<>> /\ pc # "rw_parse" /\ ~parse(input).some

\* C1: in watch mode, when read_write returns ParseInput, the loop prints an
\* error line naming the written file and is back at recv(): the process has
\* not exited and watch has not returned.
C1_ParseErrorReportedLoopContinues ==
    [][(pc = "rw_ret" /\ mode = "watch" /\ rwResult = ParseInput)
       => /\ pc' = "recv"
          /\ exit' = Running
          /\ printed' = Append(printed, FileErrorLine(Display(ParseInput), rel))]_vars

C1_Witness ==
    /\ pc = "recv"
    /\ exit = Running
    /\ ev = Event("Write", Watched(<<Name("a", "htmlisp")>>))
    /\ printed # <<>>
    /\ Last(printed) = FileErrorLine(Display(ParseInput), <<Name("a", "htmlisp")>>)

\* The failures of the loop's body that concern the one written file
FileFaults ==
    {"canonicalize_written", "strip_prefix", "to_str", "read", "create_dir_all",
     "create", "write"}

\* C2: once the watch loop runs, no failure that concerns a single written
\* file ends the process or makes watch return: after any such failure the
\* process is still running.
C2_NoFileFailureEndsWatch ==
    (mode = "watch" /\ fault \in FileFaults) => pc # "exited"

\* C3: when the input fails to parse, read_write returns ParseInput and the
\* output tree is as it was when read_write was entered: no directory made,
\* the destination neither created nor truncated.
C3_ParseFailureWritesNothing ==
    ParseFailed =>
        /\ Returned
        /\ rwResult = ParseInput
        /\ steps = <<"read">>
        /\ fs = fs0

C3_Witness ==
    /\ ParseFailed
    /\ rwResult = ParseInput
    /\ NodeAt(fs, cfg.output_file) = Entry(cfg.output_file, "file", OldText)

\* C4: a successful read_write has done read, parse, create_dir_all, create,
\* write in this order; once create_dir_all is done the parent of the
\* output file is a directory; a destination that was a file is not a reason
\* for File::create to fail, and it ends up holding the rendered text only.
C4_StepOrderAndOverwrite ==
    /\ rwResult.ok =>
          /\ steps = AllSteps
          /\ NodeAt(fs, cfg.output_file) =
                Entry(cfg.output_file, "file", Rendered(html, cfg.prettify))
    /\ (Len(steps) >= 3 /\ pop(cfg.output_file) # <<>>) =>
          NodeAt(fs, pop(cfg.output_file)).kind = "dir"
    /\ IsPrefix(steps, AllSteps)
    /\ (Returned /\ steps = SubSeq(AllSteps, 1, 3) /\ fault = "") =>
          NodeAt(fs0, cfg.output_file).kind # "file"

C4_Witness ==
    /\ rwResult.ok
    /\ NodeAt(fs0, cfg.output_file) = Entry(cfg.output_file, "file", OldText)
    /\ NodeAt(fs, cfg.output_file).text # OldText

IsHtmlispWrite(e) ==
    e.kind = "Write" /\ extension(e.path).some /\ extension(e.path).ext = "htmlisp"

\* C5: in watch mode read_write runs only for a Write event on a path with
\* the extension htmlisp; recv() of any other event leaves the loop at
\* recv() with nothing printed, nothing read and the output tree untouched.
C5_OnlyHtmlispWritesCompile ==
    /\ [](mode = "watch" /\ pc \notin {"main", "watch", "recv", "exited"}
          => IsHtmlispWrite(ev))
    /\ [][(pc = "recv" /\ pc' # "exited")
          => IF IsHtmlispWrite(ev')
             THEN pc' = "event"
             ELSE /\ pc' = "recv"
                  /\ printed' = <<>>
                  /\ UNCHANGED <<fs, fs0, Locals, exit>>]_vars

C5_Witness ==
    /\ pc = "recv"
    /\ ev = Event("Write", Watched(<<Name("", "htmlisp")>>))
    /\ printed = <<>>

\* A compile of the event ev is under way in the watch loop
Compiling == mode = "watch" /\ pc \notin {"main", "watch", "recv", "event", "exited"}

\* The mirror of a relative path below the output root: same directories,
\* the file name's extension replaced by html
Mirror(relative) ==
    OutputRoot \o Front(relative)
    \o <<Append(Front(Last(relative)), "html")>>

\* The event's path relative to the watched directory, as the watcher
\* reports it
ReportedRelative == SubSeq(ev.path, Len(Cwd \o config.watch) + 1, Len(ev.path))

\* The event's path relative to the watched directory, both with their
\* links resolved
CanonicalRelative ==
    LET w == canonicalize(config.watch, TRUE).path
        f == canonicalize(ev.path, TRUE).path
    IN  SubSeq(f, Len(w) + 1, Len(f))

\* C6 as stated: the output path of every compiled event is output/ followed
\* by the written file's path relative to the watched directory, with the
\* extension html.
C6_OutputMirrorsReportedPath ==
    Compiling => cfg.output_file = Mirror(ReportedRelative)

\* C6, amended: the output path of every compiled event is output/ followed
\* by the canonical path of the written file relative to the canonical
\* watched directory, with the extension html and its directories kept; the
\* input is the written path; nothing is written at the -o value.
C6_OutputMirrorsCanonicalPath ==
    /\ Compiling =>
          /\ IsPrefix(canonicalize(config.watch, TRUE).path,
                      canonicalize(ev.path, TRUE).path)
          /\ cfg.output_file = Mirror(CanonicalRelative)
          /\ cfg.input_file = ev.path
          /\ cfg.output_file # args.output
    /\ mode = "watch" => NodeAt(fs, args.output) = NodeAt(fsInit, args.output)

C6_Witness ==
    /\ Compiling
    /\ rwResult.ok
    /\ ev.path = Watched(<<Plain("l"), Name("a", "htmlisp")>>)
    /\ cfg.output_file = OutputRoot \o <<Plain("d"), Name("a", "html")>>
    /\ NodeAt(fs, cfg.output_file).kind = "file"

IoErrors == {"NotFound", "PermissionDenied", "NotADirectory", "IsADirectory",
             "StorageFull"}

\* C7: read_write's error names the first step that failed: ReadInput for
\* the read, ParseInput for the parse, CreateOutputFile for create_dir_all
\* and File::create, WriteOutput for the write; no step after the failed one
\* has run or left a trace in the output tree; the four kinds print
\* different messages.
C7_ErrorNamesFirstFailedStep ==
    /\ IsPrefix(steps, AllSteps)
    /\ Returned =>
          /\ rwResult.ok <=> steps = AllSteps
          /\ rwResult.kind = "ReadInput" <=> Len(steps) = 0
          /\ rwResult.kind = "ParseInput" <=> Len(steps) = 1
          /\ rwResult.kind = "CreateOutputFile" <=> Len(steps) \in {2, 3}
          /\ rwResult.kind = "WriteOutput" <=> Len(steps) = 4
          /\ Len(steps) <= 1 => fs = fs0
          /\ Len(steps) \in {2, 3} =>
                NodeAt(fs, cfg.output_file) = NodeAt(fs0, cfg.output_file)
    /\ \A k1, k2 \in RwErrorKinds : \A io \in IoErrors :
          Display(Err(k1, io)).text = Display(Err(k2, io)).text => k1 = k2

C7_Witness ==
    /\ Returned
    /\ rwResult.kind = "WriteOutput"
    /\ steps = SubSeq(AllSteps, 1, 4)

HasLine(tag) == \E i \in 1..Len(printed) : printed[i].tag = tag

\* C8: a single-shot run ends with read_write's result: on Ok the only line
\* printed is the Success line and the status is 0; on any error the only
\* line is the error's and the status is 1; a Success line is printed if and
\* only if read_write returned Ok.
C8_SingleShotErrorIsTerminal ==
    /\ (mode = "single" /\ pc # "exited") => (printed = <<>> /\ exit = Running)
    /\ (mode = "single" /\ pc = "exited") =>
          /\ HasLine("Success") <=> rwResult.ok
          /\ rwResult.ok =>
                /\ exit = Exited(0)
                /\ printed = <<SuccessLine(args.input, args.output)>>
          /\ ~rwResult.ok =>
                /\ rwResult.kind \in RwErrorKinds
                /\ exit = Exited(1)
                /\ printed = <<ErrorLine(Display(rwResult))>>

C8_Witness ==
    /\ mode = "single"
    /\ pc = "exited"
    /\ rwResult = ParseInput
    /\ exit = Exited(1)
    /\ ~HasLine("Success")

\* Whether the parentheses among tokens i.. are balanced, `depth` being open
RECURSIVE Balanced(_, _, _)
Balanced(toks, i, depth) ==
    IF i > Len(toks) THEN depth = 0
    ELSE IF toks[i].k = "(" THEN Balanced(toks, i + 1, depth + 1)
    ELSE IF toks[i].k = ")" THEN depth > 0 /\ Balanced(toks, i + 1, depth - 1)
    ELSE Balanced(toks, i + 1, depth)

Unbalanced(s) == Lex(s).ok /\ ~Balanced(Lex(s).toks, 1, 0)

\* C9: a source whose parentheses are unbalanced, "(div" and ")" among them,
\* does not parse: parse returns None, read_write returns ParseInput and the
\* output tree is as it was.
C9_UnbalancedFailsToParse ==
    (steps # <<>> /\ pc # "rw_parse"
     /\ (Unbalanced(input) \/ input \in {SrcUnterminated, SrcUnmatched}))
    => /\ html = None
       /\ Returned
       /\ rwResult = ParseInput
       /\ fs = fs0

C9_Witness ==
    /\ Returned
    /\ input = SrcUnterminated
    /\ Unbalanced(input)
    /\ rwResult = ParseInput
    /\ fs = OldTree

\* What a compile of the event ev must end with, given the text of the
\* written file, the step the environment fails and the output tree `tree`
\* it starts from
ExpectedOutcome(tree) ==
    LET out == Mirror(CanonicalRelative)
        blocked == \E n \in 1..(Len(out) - 1) :
                      NodeAt(tree, SubSeq(out, 1, n)).kind = "file"
        kind == IF fault = "read" THEN "ReadInput"
                ELSE IF ~parse(disk).some THEN "ParseInput"
                ELSE IF fault = "create_dir_all" \/ blocked THEN "CreateOutputFile"
                ELSE IF fault = "create" \/ NodeAt(tree, out).kind = "dir"
                     THEN "CreateOutputFile"
                ELSE IF fault = "write" THEN "WriteOutput"
                ELSE ""
    IN  [kind |-> kind, out |-> out,
         text |-> IF kind = "" THEN Rendered(parse(disk), args.prettify) ELSE <<>>]

\* What the compile ended with
Outcome ==
    [kind |-> rwResult.kind, out |-> cfg.output_file,
     text |-> IF rwResult.ok THEN NodeAt(fs, cfg.output_file).text ELSE <<>>]

\* C10 as stated: the outcome of a compile is what it would be had no event
\* been handled before it: a function of the command line, the event's path
\* and the file's text (and the environment's faults) alone.
C10_OutcomeIgnoresEarlierEvents ==
    (mode = "watch" /\ pc = "rw_ret") => Outcome = ExpectedOutcome(fsInit)

\* C10, amended: the outcome of a compile is a function of the command line,
\* the event's path, the file's text (and the environment's faults) and the
\* output tree as the compile finds it; nothing else of the earlier events
\* enters it, and every compile starts with empty locals.
C10_OutcomeFromInputsAndTree ==
    /\ (mode = "watch" /\ pc = "rw_ret") => Outcome = ExpectedOutcome(fs0)
    /\ (mode = "watch" /\ pc = "rw_read") =>
          /\ <<input, html, steps, rwResult>> = <<<<>>, None, <<>>, NoResult>>
          /\ cfg = EventConfig(args, ev.path, Mirror(CanonicalRelative))

C10_Witness ==
    /\ mode = "watch"
    /\ pc = "rw_ret"
    /\ fault = ""
    /\ fsInit = EmptyTree
    /\ rwResult.kind = "CreateOutputFile"
    /\ Outcome = ExpectedOutcome(fs0)

\* The entries of the output tree a step changed
Changed == (fs \ fs') \cup (fs' \ fs)

\* C11: events are handled one at a time in the order received: recv() takes
\* the oldest waiting event, and only when no compile is under way; while
\* one is, the event and its Config stay and the channel only grows; the
\* output tree changes only in an output step of the one running
\* read_write, and only on its output path.
C11_OneEventAtATimeInOrder ==
    /\ [][ev' # ev \/ Len(channel') < Len(channel)
          => /\ pc = "recv"
             /\ channel # <<>>
             /\ ev' = Head(channel)
             /\ channel' = Tail(channel)
             /\ <<cfg, input, html, steps, rwResult>>
                   = <<NoConfig, <<>>, None, <<>>, NoResult>>]_vars
    /\ [][pc # "recv" => ev' = ev /\ IsPrefix(channel, channel')]_vars
    /\ [][fs' # fs
          => /\ pc \in {"rw_create_dir_all", "rw_create", "rw_write"}
             /\ <<ev', cfg'>> = <<ev, cfg>>
             /\ \A e \in Changed : IsPrefix(e.path, cfg.output_file)]_vars

C11_Witness ==
    /\ pc = "rw_write"
    /\ ev = Event("Write", Watched(<<Name("a", "htmlisp")>>))
    /\ channel = <<Event("Write", Watched(<<Name("a", "txt")>>)),
                   Event("Write", Watched(<<Plain("d"), Name("a", "htmlisp")>>))>>

-----------------------------------------------------------------------------
(* C12                                                                     *)

\* The text of the output file of the running read_write
Written == NodeAt(fs, cfg.output_file).text

\* C12: a successful read_write has written exactly one rendering of the
\* parsed document: the pretty rendering started at depth 0 when prettify is
\* set, the compact rendering otherwise; never both of them, and never a
\* pretty rendering started at another depth.
C12_WritesOneRendering ==
    pc = "rw_ret" /\ rwResult.ok =>
        LET pretty == pretty_print(html.nodes, 0)
            compact == render_compact(html.nodes)
        IN  /\ NodeAt(fs, cfg.output_file).kind = "file"
            /\ cfg.prettify => Written = pretty
            /\ ~cfg.prettify => Written = compact
            /\ html.nodes # <<>> =>
                  /\ Written \notin {pretty \o compact, compact \o pretty}
                  /\ Written # pretty_print(html.nodes, 1)

C12_Witness ==
    /\ pc = "rw_ret"
    /\ rwResult.ok
    /\ cfg.prettify
    /\ html.some
    /\ html.nodes # <<>>
    /\ Written = pretty_print(html.nodes, 0)
    /\ Written # render_compact(html.nodes)

-----------------------------------------------------------------------------
(* C13                                                                     *)

\* read_write is running or has just returned
InReadWrite == pc \in {"rw_read", "rw_parse", "rw_create_dir_all", "rw_create", "rw_write", "rw_ret"}

\* C13: run selects exactly one mode, help before watch before single-shot.
\* With the help flag the process prints the help text and exits with
\* status 0 without watching, reading or writing, whatever else the command
\* line holds; without it and with a watch directory only watch runs, and
\* read_write runs only for an event of the loop; run calls read_write
\* itself only when neither holds.
C13_ModePrecedence ==
    /\ mode \in {"none", "single", "watch"}
    /\ pc = "main" => mode = "none"
    /\ args.valid /\ args.help =>
          /\ mode = "none"
          /\ pc \in {"main", "exited"}
          /\ ~watcher /\ ev = NoEvent /\ steps = <<>> /\ input = <<>>
          /\ fs = fsInit
          /\ pc = "exited" => exit = Exited(0) /\ printed = <<HelpLine>>
    /\ mode = "watch" <=> pc # "main" /\ args.valid /\ ~args.help /\ args.watch # <<>>
    /\ mode = "single" <=> pc # "main" /\ args.valid /\ ~args.help /\ args.watch = <<>>
    /\ mode = "watch" /\ InReadWrite => pc # "main" /\ Compiles(ev) /\ cfg # config
    /\ mode = "single" =>
          /\ ~watcher /\ ev = NoEvent
          /\ InReadWrite \/ pc = "exited"
          /\ InReadWrite => cfg = config
    /\ InReadWrite => mode # "none"

C13_Witness ==
    /\ pc = "exited"
    /\ args.valid /\ args.help /\ args.watch = WatchArg
    /\ exit = Exited(0)
    /\ printed = <<HelpLine>>
    /\ fs = fsInit

-----------------------------------------------------------------------------
(* C14                                                                     *)

\* The command line asks for watch on a path that is not a directory
WatchNotDir == args.valid /\ ~args.help /\ args.watch # <<>> /\ ~is_dir(args.watch)

\* C14: when the watch path is not a directory, watch returns
\* WatchDirIncorrect before a watcher is created and before any event is
\* received or any file is read or written, and the process exits with
\* status 1 after the line of that error.
C14_NotADirectoryEndsWatchFirst ==
    WatchNotDir =>
        /\ pc \in {"main", "watch", "exited"}
        /\ ~watcher
        /\ channel = <<>> /\ ev = NoEvent
        /\ steps = <<>> /\ input = <<>> /\ rwResult = NoResult
        /\ fs = fsInit
        /\ pc = "exited" =>
              /\ exit = Exited(1)
              /\ printed = <<ErrorLine(Display(WatchDirIncorrect(args.watch)))>>

C14_Witness ==
    /\ WatchNotDir
    /\ pc = "exited"
    /\ mode = "watch"
    /\ exit = Exited(1)
    /\ printed = <<ErrorLine(Display(WatchDirIncorrect(NotDirArg)))>>

-----------------------------------------------------------------------------
(* C15                                                                     *)

\* The lines of printed with the given tag
LinesOf(tag) == { printed[i] : i \in { j \in 1..Len(printed) : printed[j].tag = tag } }

\* C15: watch never returns Ok. A process in watch mode ends only with a
\* status other than 0, after an Error line or a panic, and never prints
\* main's final line Success: input -> output; the only Success lines are
\* those of the loop, one for a compiled event, naming the event's relative
\* path and its output file.
C15_WatchNeverSucceeds ==
    mode = "watch" =>
        /\ pc = "exited" =>
              /\ exit \in {Exited(1), Exited(101)}
              /\ Last(printed).tag \in {"Error", "Panic"}
        /\ SuccessLine(config.input_file, config.output_file) \notin LinesOf("Success")
        /\ \A l \in LinesOf("Success") :
              /\ pc \in {"recv", "exited"}
              /\ Compiles(ev)
              /\ l = SuccessLine(CanonicalRelative, Mirror(CanonicalRelative))

C15_Witness ==
    /\ mode = "watch"
    /\ pc = "exited"
    /\ exit = Exited(1)
    /\ LinesOf("Success") # {}
    /\ Last(printed) = ErrorLine(Message("Watch error: {:?}", "RecvError", <<>>))

=============================================================================
